---------------------------- MODULE Spec2Model ----------------------------
(***************************************************************************)
(* The AML dashboard of crime-viz-flow: the upload / analysis path         *)
(* (CSVUpload, AMLDashboard.handleDataUpload, mockPredict), the derived    *)
(* account graph (graphNodes, graphEdges), the transaction table's query   *)
(* (filteredAndSortedTransactions, handleSort) and the what-if simulator   *)
(* (TransactionSimulator, mockSimulate).                                   *)
(*                                                                         *)
(* Strings are sequences of one-character strings, so that toLowerCase,    *)
(* includes, padStart, parseFloat and localeCompare are computed.          *)
(* Numbers in [0, 1) (Math.random) are integer hundredths.                 *)
(***************************************************************************)
EXTENDS Integers, Sequences, FiniteSets

VARIABLES
    uploadedData,             \* AMLDashboard: useState<any[]>([])
    suspiciousTransactions,   \* AMLDashboard: useState<Transaction[]>([])
    isProcessing,             \* AMLDashboard: useState(false)
    reading,                  \* FileReader loads started by processFile, not yet loaded
    predicting,               \* mockPredict calls awaiting their 1500 ms timer, oldest first
    sortField,                \* SuspiciousTransactionsTable: useState('risk_score')
    sortDirection,            \* SuspiciousTransactionsTable: useState('desc')
    filterRisk,               \* SuspiciousTransactionsTable: useState('all')
    searchTerm,               \* SuspiciousTransactionsTable: useState('')
    formData,                 \* TransactionSimulator: useState({amount: '', ...})
    result,                   \* TransactionSimulator: useState<SimulationResult | null>(null)
    isLoading,                \* TransactionSimulator: useState(false)
    simulating                \* onSimulate calls awaiting their 800 ms timer, oldest first

dashboardVars == <<uploadedData, suspiciousTransactions, isProcessing, reading, predicting>>
tableVars == <<sortField, sortDirection, filterRisk, searchTerm>>
simulatorVars == <<formData, result, isLoading, simulating>>
vars == <<uploadedData, suspiciousTransactions, isProcessing, reading, predicting,
          sortField, sortDirection, filterRisk, searchTerm,
          formData, result, isLoading, simulating>>

(***************************************************************************)
(* Bounds of the model.                                                    *)
(***************************************************************************)
\* File reads and analyses that may be outstanding together.
MaxInFlight == 2
\* Rows of the long upload (more rows than mockPredict keeps).
LongBatchLen == 11

(***************************************************************************)
(* Characters and strings.                                                 *)
(***************************************************************************)
UpperLetters == <<"A","B","C","D","E","F","G","H","I","J","K","L","M",
                  "N","O","P","Q","R","S","T","U","V","W","X","Y","Z">>
LowerLetters == <<"a","b","c","d","e","f","g","h","i","j","k","l","m",
                  "n","o","p","q","r","s","t","u","v","w","x","y","z">>
DigitChars == <<"0","1","2","3","4","5","6","7","8","9">>

Range(s) == {s[i] : i \in DOMAIN s}
IndexOf(s, c) == CHOOSE i \in DOMAIN s : s[i] = c

\* String.prototype.toLowerCase / toUpperCase, character by character.
LowerChar(c) == IF c \in Range(UpperLetters) THEN LowerLetters[IndexOf(UpperLetters, c)] ELSE c
UpperChar(c) == IF c \in Range(LowerLetters) THEN UpperLetters[IndexOf(LowerLetters, c)] ELSE c
ToLowerCase(s) == [i \in 1..Len(s) |-> LowerChar(s[i])]
ToUpperCase(s) == [i \in 1..Len(s) |-> UpperChar(s[i])]

\* String.prototype.includes: t occurs in s at some offset.
Includes(s, t) == \E off \in 0..(Len(s) - Len(t)) : SubSeq(s, off + 1, off + Len(t)) = t

\* String.prototype.substr(start, length), start counted from 0.
Substr(s, start, length) ==
    SubSeq(s, start + 1, IF start + length < Len(s) THEN start + length ELSE Len(s))

\* String.prototype.padStart(n, '0').
PadStart(s, n) == [i \in 1..(IF Len(s) < n THEN n - Len(s) ELSE 0) |-> "0"] \o s

(***************************************************************************)
(* Numbers.  NaN is the one non-number value a number field can hold.      *)
(***************************************************************************)
NaN == -999999999
IsNaN(x) == x = NaN

RECURSIVE NatToString(_)
NatToString(n) ==
    IF n < 10 THEN <<DigitChars[n + 1]>>
    ELSE NatToString(n \div 10) \o <<DigitChars[(n % 10) + 1]>>

\* String(n) for an integer n.
NumberToString(n) ==
    IF IsNaN(n) THEN <<"N","a","N">>
    ELSE IF n < 0 THEN <<"-">> \o NatToString(0 - n)
    ELSE NatToString(n)

RECURSIVE ParseDigits(_, _, _)
ParseDigits(s, i, acc) ==
    IF i > Len(s) \/ s[i] \notin Range(DigitChars) THEN acc
    ELSE ParseDigits(s, i + 1, acc * 10 + (IndexOf(DigitChars, s[i]) - 1))

\* parseFloat(s): an optional sign, then the longest run of digits; NaN when
\* there is none.  (Values are trimmed by processFile; the rows of the model hold
\* no fraction or exponent.)
ParseFloat(s) ==
    LET signed == Len(s) > 0 /\ s[1] \in {"-", "+"}
        first  == IF signed THEN 2 ELSE 1
    IN  IF first > Len(s) \/ s[first] \notin Range(DigitChars) THEN NaN
        ELSE IF signed /\ s[1] = "-" THEN 0 - ParseDigits(s, first, 0)
        ELSE ParseDigits(s, first, 0)


(***************************************************************************)
(* Math.random().  A draw is a number of hundredths in [0, 100); the k-th  *)
(* draw of a stream is a pure function of the stream's seed.               *)
(***************************************************************************)
\* A stream starts anywhere in RandomValues and advances by one of Strides.
RandomValues == <<0, 25, 40, 50, 70, 75>>
Strides == {0, 1, 2}
Seeds == (0..(Len(RandomValues) - 1)) \X Strides
Random(seed, k) == RandomValues[((seed[1] + k * seed[2]) % Len(RandomValues)) + 1]

\* Number.prototype.toString(36) of a draw r/100: "0" for zero, else "0." and
\* the base-36 digits of the fraction (the first six, all that substr(2, 6) keeps).
Base36Chars == DigitChars \o LowerLetters
RECURSIVE FracDigits36(_, _)
FracDigits36(r, n) ==
    IF r = 0 \/ n = 0 THEN <<>>
    ELSE <<Base36Chars[((r * 36) \div 100) + 1]>> \o FracDigits36((r * 36) % 100, n - 1)
ToString36(r) == IF r = 0 THEN <<"0">> ELSE <<"0", ".">> \o FracDigits36(r, 6)

\* `ACC-${Math.random().toString(36).substr(2, 6).toUpperCase()}`
RandomAccount(r) == <<"A","C","C","-">> \o ToUpperCase(Substr(ToString36(r), 2, 6))

(***************************************************************************)
(* The risk levels and their thresholds (hundredths).                      *)
(***************************************************************************)
HighThreshold == 70
MediumThreshold == 40
HIGH == <<"H","I","G","H">>
MEDIUM == <<"M","E","D","I","U","M">>
LOW == <<"L","O","W">>
RiskLevels == {HIGH, MEDIUM, LOW}

\* Quantize with the thresholds themselves counted to the level above.
QuantizeInclusive(score) ==
    IF score >= HighThreshold THEN HIGH
    ELSE IF score >= MediumThreshold THEN MEDIUM ELSE LOW

\* mockSimulate's quantization of one score.
Quantize(score) ==
    IF score > HighThreshold THEN HIGH
    ELSE IF score > MediumThreshold THEN MEDIUM ELSE LOW

(***************************************************************************)
(* mockPredict.                                                            *)
(***************************************************************************)
\* Rows mockPredict keeps: data.slice(0, Math.min(10, data.length)).
MaxSuspicious == 10
Min(a, b) == IF a < b THEN a ELSE b
Slice(s, n) == SubSeq(s, 1, Min(n, Len(s)))

ReasonCodes == <<"LARGE_AMOUNT", "UNUSUAL_PATTERN", "CROSS_BORDER">>

\* reasonCodes without the + 1 of the slice's end.
reasonCodesFromZero(r) == SubSeq(ReasonCodes, 1, (r * 3) \div 100)

\* [...].slice(0, Math.floor(Math.random() * 3) + 1), for the draw r.
reasonCodes(r) == SubSeq(ReasonCodes, 1, ((r * 3) \div 100) + 1)
Now == <<"n","o","w">>

\* `TXN-${String(index + 1).padStart(6, '0')}`, index counted from 0.
TxnId(index) == <<"T","X","N","-">> \o PadStart(NumberToString(index + 1), 6)

\* One element of the map callback: the transaction of `row` at `index`, the
\* draws taken from the stream in the order the object literal evaluates them,
\* and the number of the next draw.  An empty field is falsy, so `||` draws.
PredictRow(row, index, seed, k) ==
    LET kAmount == IF row.amount = <<>> THEN k + 1 ELSE k
        amount  == IF row.amount = <<>>
                   THEN ParseFloat(NumberToString(Random(seed, k) * 1000))
                   ELSE ParseFloat(row.amount)
        kFrom   == IF row.from_account = <<>> THEN kAmount + 1 ELSE kAmount
        from    == IF row.from_account = <<>>
                   THEN RandomAccount(Random(seed, kAmount)) ELSE row.from_account
        kTo     == IF row.to_account = <<>> THEN kFrom + 1 ELSE kFrom
        to      == IF row.to_account = <<>>
                   THEN RandomAccount(Random(seed, kFrom)) ELSE row.to_account
        score   == Random(seed, kTo)
        first   == Random(seed, kTo + 1)
        kLevel  == IF first > HighThreshold THEN kTo + 2 ELSE kTo + 3
        level   == IF first > HighThreshold THEN HIGH
                   ELSE IF Random(seed, kTo + 2) > MediumThreshold THEN MEDIUM ELSE LOW
    IN  [tx |-> [id           |-> TxnId(index),
                 amount       |-> amount,
                 from_account |-> from,
                 to_account   |-> to,
                 timestamp    |-> IF row.timestamp = <<>> THEN Now ELSE row.timestamp,
                 risk_score   |-> score,
                 risk_level   |-> level,
                 reason_codes |-> reasonCodes(Random(seed, kLevel)),
                 status       |-> "FLAGGED"],
         next |-> kLevel + 1]

RECURSIVE PredictRows(_, _, _, _)
PredictRows(rows, index, seed, k) ==
    IF index >= Len(rows) THEN <<>>
    ELSE LET r == PredictRow(rows[index + 1], index, seed, k)
         IN  <<r.tx>> \o PredictRows(rows, index + 1, seed, r.next)

\* What mockPredict(data) resolves to, for the random stream of `seed`.
mockPredict(data, seed) == PredictRows(Slice(data, MaxSuspicious), 0, seed, 0)

(***************************************************************************)
(* The files a user may select or drop: each is given by the rows          *)
(* processFile parses from it (one row per non-blank line, every value     *)
(* trimmed, '' for a missing value).                                       *)
(***************************************************************************)
AccA == <<"A","C","-","a","1">>
AccB == <<"A","C","-","B","1">>
AccC == <<"A","C","-","c","2">>
Row(amount, from, to) ==
    [amount |-> amount, from_account |-> from, to_account |-> to, timestamp |-> <<>>]

\* 1: valid rows, two of them between the same accounts;
\* 2: a non-numeric and a negative amount;  3: empty amount and account fields;
\* 4: more rows than mockPredict keeps.
Files ==
    << <<Row(<<"5">>, AccA, AccB), Row(<<"3">>, AccB, AccC), Row(<<"5">>, AccA, AccB)>>,
       <<Row(<<"7">>, AccA, AccB), Row(<<"a","b","c">>, AccB, AccC), Row(<<"-","3">>, AccC, AccA)>>,
       <<Row(<<>>, <<>>, AccB), Row(<<"2">>, AccA, <<>>)>>,
       [i \in 1..LongBatchLen |-> Row(<<"5">>, AccA, AccB)] >>
FileIds == DOMAIN Files

\* mockPredict of every file under every random stream, evaluated once.
Analyses == [f \in FileIds, seed \in Seeds |-> mockPredict(Files[f], seed)]

(***************************************************************************)
(* The initial state: every useState initial value, nothing in flight.     *)
(***************************************************************************)
EmptyForm == [amount |-> <<>>, from_account |-> <<>>, to_account |-> <<>>,
              transaction_type |-> "transfer"]
Null == [null |-> TRUE]

Init ==
    /\ uploadedData = <<>>
    /\ suspiciousTransactions = <<>>
    /\ isProcessing = FALSE
    /\ reading = [f \in FileIds |-> 0]
    /\ predicting = <<>>
    /\ sortField = "risk_score"
    /\ sortDirection = "desc"
    /\ filterRisk = <<"a","l","l">>
    /\ searchTerm = <<>>
    /\ formData = EmptyForm
    /\ result = Null
    /\ isLoading = FALSE
    /\ simulating = <<>>

(***************************************************************************)
(* CSVUpload and AMLDashboard.handleDataUpload.                            *)
(***************************************************************************)
RECURSIVE SumOver(_, _)
SumOver(f, S) == IF S = {} THEN 0 ELSE LET x == CHOOSE x \in S : TRUE
                                       IN  f[x] + SumOver(f, S \ {x})
\* File reads and analyses outstanding.
InFlight == SumOver(reading, FileIds) + Len(predicting)

\* processFile: reader.readAsText(selectedFile); the load completes later.
\* `files` are the files the user has at hand and `limit` the reads and analyses
\* the model lets be outstanding together.
processFile(f) == reading' = [reading EXCEPT ![f] = @ + 1]

\* The file input's onChange.  The input is disabled while isProcessing.
handleFileSelect(files, limit) ==
    \E f \in files :
        /\ ~isProcessing
        /\ InFlight < limit
        /\ processFile(f)
        /\ UNCHANGED <<uploadedData, suspiciousTransactions, isProcessing, predicting>>
        /\ UNCHANGED <<tableVars, simulatorVars>>

\* The drop zone's onDrop: a text/csv file is processed, any other only toasts.
handleDrop(files, limit) ==
    \E f \in files, type \in {"text/csv", "text/plain"} :
        /\ InFlight < limit
        /\ IF type = "text/csv" THEN processFile(f) ELSE UNCHANGED reading
        /\ UNCHANGED <<uploadedData, suspiciousTransactions, isProcessing, predicting>>
        /\ UNCHANGED <<tableVars, simulatorVars>>

\* reader.onload: the rows are parsed and handed to onUpload = handleDataUpload,
\* which runs up to its await: setUploadedData(data), setIsProcessing(true), and
\* mockPredict(data) starts its timer.
readerOnload ==
    \E f \in FileIds :
        /\ reading[f] > 0
        /\ reading' = [reading EXCEPT ![f] = @ - 1]
        /\ uploadedData' = Files[f]
        /\ isProcessing' = TRUE
        /\ predicting' = Append(predicting, f)
        /\ UNCHANGED suspiciousTransactions
        /\ UNCHANGED <<tableVars, simulatorVars>>

\* The oldest mockPredict timer fires (equal delays fire in the order they were
\* set); handleDataUpload resumes: setSuspiciousTransactions(suspicious), then
\* finally setIsProcessing(false).  mockPredict never rejects, so the catch
\* branch is not reachable.
predictResolved ==
    /\ predicting # <<>>
    /\ \E seed \in Seeds :
           suspiciousTransactions' = Analyses[Head(predicting), seed]
    /\ isProcessing' = FALSE
    /\ predicting' = Tail(predicting)
    /\ UNCHANGED <<uploadedData, reading>>
    /\ UNCHANGED <<tableVars, simulatorVars>>

(***************************************************************************)
(* The derived account graph, recomputed at every render.                  *)
(***************************************************************************)
graphNodes ==
    [i \in 1..Len(suspiciousTransactions) |->
        LET tx == suspiciousTransactions[i]
        IN  [id |-> tx.from_account, label |-> tx.from_account,
             risk_level |-> tx.risk_level, account_type |-> "Standard",
             total_volume |-> tx.amount]]

\* graphEdge with the edge marked from the score instead of the level.
graphEdgeByScore(tx) ==
    [from |-> tx.from_account, to |-> tx.to_account, amount |-> tx.amount,
     suspicious |-> (tx.risk_score > HighThreshold)]

graphEdge(tx) ==
    [from |-> tx.from_account, to |-> tx.to_account, amount |-> tx.amount,
     suspicious |-> (tx.risk_level = HIGH)]

graphEdges == [i \in 1..Len(suspiciousTransactions) |-> graphEdge(suspiciousTransactions[i])]

(***************************************************************************)
(* The dashboard's specification: uploads and their analyses.              *)
(***************************************************************************)
Next ==
    \/ handleFileSelect(FileIds, MaxInFlight)
    \/ handleDrop(FileIds, MaxInFlight)
    \/ readerOnload
    \/ predictResolved

Spec == Init /\ [][Next]_vars


(***************************************************************************)
(* SuspiciousTransactionsTable: the filter, the comparator and the sort.   *)
(***************************************************************************)
SortFields == {"id", "amount", "from_account", "to_account", "risk_score", "risk_level"}
\* The sortable fields whose values have typeof 'number' (NaN included).
NumericFields == {"amount", "risk_score"}
ALL == <<"a","l","l">>
RiskFilters == RiskLevels \cup {ALL}
\* What the user types into the search box.
SearchTerms == {<<>>, <<"A","1">>, <<"b">>, <<"0","2">>}

\* matchesFilter with the search term left in the case it was typed in.
matchesFilterTermAsTyped(tx) ==
    LET matchesSearch ==
            \/ Includes(ToLowerCase(tx.from_account), searchTerm)
            \/ Includes(ToLowerCase(tx.to_account), searchTerm)
            \/ Includes(ToLowerCase(tx.id), searchTerm)
        matchesRisk == filterRisk = ALL \/ tx.risk_level = filterRisk
    IN  matchesSearch /\ matchesRisk

\* The filter callback.
matchesFilter(tx) ==
    LET matchesSearch ==
            \/ Includes(ToLowerCase(tx.from_account), ToLowerCase(searchTerm))
            \/ Includes(ToLowerCase(tx.to_account), ToLowerCase(searchTerm))
            \/ Includes(ToLowerCase(tx.id), ToLowerCase(searchTerm))
        matchesRisk == filterRisk = ALL \/ tx.risk_level = filterRisk
    IN  matchesSearch /\ matchesRisk

\* String.prototype.localeCompare under the root collation, for letters, digits,
\* '-' and '.': strings compare by their characters' primary weights
\* (punctuation before digits before letters, case ignored), and strings equal at
\* that level by case, lower case first.  The result is -1, 0 or 1.
PrimaryOrder == <<"-", ".">> \o DigitChars \o LowerLetters
Primary(c) == IndexOf(PrimaryOrder, LowerChar(c))
IsUpper(c) == c \in Range(UpperLetters)

CaseWeight(c) == IF IsUpper(c) THEN 1 ELSE 0
Weight(level, c) == IF level = "primary" THEN Primary(c) ELSE CaseWeight(c)

RECURSIVE CompareAt(_, _, _, _)
\* The first difference of s and t from position i on, at a collation level.
CompareAt(s, t, i, level) ==
    IF i > Len(s) /\ i > Len(t) THEN 0
    ELSE IF i > Len(s) THEN -1
    ELSE IF i > Len(t) THEN 1
    ELSE IF Weight(level, s[i]) < Weight(level, t[i]) THEN -1
    ELSE IF Weight(level, s[i]) > Weight(level, t[i]) THEN 1
    ELSE CompareAt(s, t, i + 1, level)

LocaleCompare(s, t) ==
    LET primary == CompareAt(s, t, 1, "primary")
    IN  IF primary # 0 THEN primary ELSE CompareAt(s, t, 1, "case")

\* compare with the risk levels ordered by severity, LOW < MEDIUM < HIGH.
compareBySeverity(a, b, field, direction) ==
    LET rank(v) == IF v = HIGH THEN 3 ELSE IF v = MEDIUM THEN 2 ELSE 1
        aVal == a[field]
        bVal == b[field]
        multiplier == IF direction = "asc" THEN 1 ELSE -1
    IN  IF field \in NumericFields
        THEN IF IsNaN(aVal) \/ IsNaN(bVal) THEN NaN ELSE (aVal - bVal) * multiplier
        ELSE IF field = "risk_level" THEN (rank(aVal) - rank(bVal)) * multiplier
        ELSE LocaleCompare(aVal, bVal) * multiplier

\* The sort callback under the sort state (field, direction): its value for
\* (a, b), NaN when a number operand is NaN.
compare(a, b, field, direction) ==
    LET aVal == a[field]
        bVal == b[field]
        multiplier == IF direction = "asc" THEN 1 ELSE -1
    IN  IF field \in NumericFields
        THEN IF IsNaN(aVal) \/ IsNaN(bVal) THEN NaN ELSE (aVal - bVal) * multiplier
        ELSE LocaleCompare(aVal, bVal) * multiplier

\* Array.prototype.sort reads a NaN from the comparator as +0.
SortCompare(a, b, field, direction) ==
    IF IsNaN(compare(a, b, field, direction)) THEN 0 ELSE compare(a, b, field, direction)

\* ECMAScript's consistent comparator: among other things it never returns NaN.
\* (A difference of numbers and localeCompare are total preorders otherwise.)
ConsistentComparator(list, field, direction) ==
    \A i, j \in DOMAIN list : ~IsNaN(compare(list[i], list[j], field, direction))

Max(S) == CHOOSE x \in S : \A y \in S : y <= x

\* A stable sort: each element goes behind the last one not greater than it.
InsertSorted(sorted, x, field, direction) ==
    LET j == Max({0} \cup {k \in DOMAIN sorted :
                              SortCompare(sorted[k], x, field, direction) <= 0})
    IN  SubSeq(sorted, 1, j) \o <<x>> \o SubSeq(sorted, j + 1, Len(sorted))

RECURSIVE StableSort(_, _, _)
StableSort(list, field, direction) ==
    IF list = <<>> THEN <<>>
    ELSE InsertSorted(StableSort(SubSeq(list, 1, Len(list) - 1), field, direction),
                      list[Len(list)], field, direction)

Reorderings(list) ==
    {[i \in DOMAIN list |-> list[p[i]]] :
        p \in {q \in [DOMAIN list -> DOMAIN list] :
                 \A i, j \in DOMAIN list : q[i] = q[j] => i = j}}

\* Array.prototype.sort: stable under a consistent comparator; under any other the
\* order is implementation-defined, so every permutation is a possible outcome.
sortOutcomes(list, field, direction) ==
    IF ConsistentComparator(list, field, direction)
    THEN {StableSort(list, field, direction)}
    ELSE Reorderings(list)

\* transactions.filter(...): a new array, in the order of the store.
filteredTransactions == SelectSeq(suspiciousTransactions, matchesFilter)

\* The arrays filteredAndSortedTransactions may hold in this state.
filteredAndSortedTransactions ==
    sortOutcomes(filteredTransactions, sortField, sortDirection)

\* queryEvaluation with sort called on the array passed in, before the filter.
queryEvaluationSortingInput(transactions) ==
    {[transactions |-> sorted, view |-> SelectSeq(sorted, matchesFilter)] :
        sorted \in sortOutcomes(transactions, sortField, sortDirection)}

\* One evaluation of the query on the array `transactions`: what the array holds
\* afterwards and the view computed.  filter returns a new array and sort sorts
\* that one in place, so the array passed in is left as it was.
queryEvaluation(transactions) ==
    {[transactions |-> transactions, view |-> view] :
        view \in sortOutcomes(SelectSeq(transactions, matchesFilter),
                               sortField, sortDirection)}

\* handleSort with the direction kept when another field is chosen.
handleSortKeepingDirection(field) ==
    /\ IF sortField = field
       THEN /\ sortDirection' = (IF sortDirection = "asc" THEN "desc" ELSE "asc")
            /\ UNCHANGED sortField
       ELSE /\ sortField' = field
            /\ UNCHANGED sortDirection
    /\ UNCHANGED <<filterRisk, searchTerm>>
    /\ UNCHANGED <<dashboardVars, simulatorVars>>

handleSort(field) ==
    /\ IF sortField = field
       THEN /\ sortDirection' = (IF sortDirection = "asc" THEN "desc" ELSE "asc")
            /\ UNCHANGED sortField
       ELSE /\ sortField' = field
            /\ sortDirection' = "desc"
    /\ UNCHANGED <<filterRisk, searchTerm>>
    /\ UNCHANGED <<dashboardVars, simulatorVars>>

\* The risk Select's onValueChange.
setFilterRisk(value) ==
    /\ filterRisk' = value
    /\ UNCHANGED <<sortField, sortDirection, searchTerm>>
    /\ UNCHANGED <<dashboardVars, simulatorVars>>

\* The search Input's onChange.
setSearchTerm(value) ==
    /\ searchTerm' = value
    /\ UNCHANGED <<sortField, sortDirection, filterRisk>>
    /\ UNCHANGED <<dashboardVars, simulatorVars>>

(***************************************************************************)
(* TransactionSimulator and mockSimulate.                                  *)
(***************************************************************************)
RiskFactors == <<"LARGE_AMOUNT", "UNUSUAL_TIME", "NEW_RECIPIENT">>
FormFields == {"amount", "from_account", "to_account"}
\* What the user types into a field of the form.
FormValues == {<<>>, <<"9">>}

\* What mockSimulate(transaction) resolves to, for the random stream of `seed`.
\* Of the explanation only the part that varies is kept.
mockSimulate(transaction, seed) ==
    LET risk_score == Random(seed, 0)
        risk_level == Quantize(risk_score)
    IN  [risk_score   |-> risk_score,
         risk_level   |-> risk_level,
         risk_factors |-> SubSeq(RiskFactors, 1, ((Random(seed, 1) * 3) \div 100) + 1),
         explanation  |-> ToLowerCase(risk_level)]

handleInputChange(field, value) ==
    /\ formData' = [formData EXCEPT ![field] = value]
    /\ result' = Null
    /\ UNCHANGED <<isLoading, simulating>>
    /\ UNCHANGED <<dashboardVars, tableVars>>

\* The Analyze button's onClick, up to the await.  The button is disabled while
\* isLoading.  With a required field empty it only toasts.
handleSimulate ==
    /\ ~isLoading
    /\ IF formData.amount = <<>> \/ formData.from_account = <<>> \/ formData.to_account = <<>>
       THEN UNCHANGED <<isLoading, simulating>>
       ELSE /\ isLoading' = TRUE
            /\ simulating' = Append(simulating,
                                    [formData EXCEPT !.amount = ParseFloat(formData.amount)])
    /\ UNCHANGED <<formData, result>>
    /\ UNCHANGED <<dashboardVars, tableVars>>

\* simulateResolved with the simulated transaction also put into the store.
simulateResolvedCommitting ==
    /\ simulating # <<>>
    /\ \E seed \in Seeds :
           LET r == mockSimulate(Head(simulating), seed)
               t == Head(simulating)
           IN  /\ result' = r
               /\ suspiciousTransactions' = Append(suspiciousTransactions,
                      [id |-> TxnId(Len(suspiciousTransactions)), amount |-> t.amount,
                       from_account |-> t.from_account, to_account |-> t.to_account,
                       timestamp |-> Now, risk_score |-> r.risk_score,
                       risk_level |-> r.risk_level, reason_codes |-> r.risk_factors,
                       status |-> "FLAGGED"])
    /\ isLoading' = FALSE
    /\ simulating' = Tail(simulating)
    /\ UNCHANGED <<formData, uploadedData, isProcessing, reading, predicting>>
    /\ UNCHANGED tableVars

\* The mockSimulate timer fires; handleSimulate resumes: setResult, then finally
\* setIsLoading(false).  mockSimulate never rejects.
simulateResolved ==
    /\ simulating # <<>>
    /\ \E seed \in Seeds : result' = mockSimulate(Head(simulating), seed)
    /\ isLoading' = FALSE
    /\ simulating' = Tail(simulating)
    /\ UNCHANGED formData
    /\ UNCHANGED <<dashboardVars, tableVars>>

(***************************************************************************)
(* The table's specification: the table's handlers over the stores that    *)
(* uploads, one at a time, produce.                                        *)
(***************************************************************************)
\* The files at hand: the valid rows, and the rows with bad amounts.
QueryFiles == {1, 2}

NextQuery ==
    \/ handleFileSelect(QueryFiles, 1)
    \/ readerOnload
    \/ predictResolved
    \/ \E field \in SortFields : handleSort(field)
    \/ \E value \in RiskFilters : setFilterRisk(value)
    \/ \E value \in SearchTerms : setSearchTerm(value)

SpecQuery == Init /\ [][NextQuery]_vars

(***************************************************************************)
(* The simulator's specification: the simulator's handlers, interleaved    *)
(* with uploads and the table's handlers.                                  *)
(***************************************************************************)
SimFiles == {1, 3}

NextSim ==
    \/ \E field \in FormFields, value \in FormValues : handleInputChange(field, value)
    \/ handleSimulate
    \/ simulateResolved
    \/ handleDrop(SimFiles, 1)
    \/ readerOnload
    \/ predictResolved

SpecSim == Init /\ [][NextSim]_vars


(***************************************************************************)
(* Ingestion: C1, C2, C3 (specification Spec).                             *)
(***************************************************************************)
Stored == {suspiciousTransactions[i] : i \in DOMAIN suspiciousTransactions}

\* C1: every stored transaction's risk_level is the quantization of its own
\* risk_score: HIGH iff the score is above 0.7, MEDIUM iff it is above 0.4 and
\* at most 0.7, LOW otherwise.
C1_LevelQuantizesScore ==
    \A tx \in Stored :
        /\ tx.risk_level = HIGH <=> tx.risk_score > HighThreshold
        /\ tx.risk_level = MEDIUM <=>
               (tx.risk_score > MediumThreshold /\ tx.risk_score <= HighThreshold)
        /\ tx.risk_level = LOW <=> tx.risk_score <= MediumThreshold

\* C2: once the analysis of an upload of N rows has completed (no analysis is
\* outstanding, so the store is that of the last upload), the store holds N
\* transactions, the i-th made from the i-th row.
C2_EveryRowStored ==
    predicting = <<>> =>
        /\ Len(suspiciousTransactions) = Len(uploadedData)
        /\ \A i \in DOMAIN suspiciousTransactions :
               /\ i \in DOMAIN uploadedData
               /\ suspiciousTransactions[i].id = TxnId(i - 1)
               /\ uploadedData[i].from_account # <<>> =>
                      suspiciousTransactions[i].from_account = uploadedData[i].from_account
               /\ uploadedData[i].to_account # <<>> =>
                      suspiciousTransactions[i].to_account = uploadedData[i].to_account

\* A row the store's contract rejects: an amount that is no number or is
\* negative, or an empty account.
InvalidRow(row) ==
    \/ IsNaN(ParseFloat(row.amount))
    \/ ParseFloat(row.amount) < 0
    \/ row.from_account = <<>>
    \/ row.to_account = <<>>
InvalidBatch(data) == \E i \in DOMAIN data : InvalidRow(data[i])

\* C3: when the analysis of a batch with an invalid row settles, the store is
\* left exactly as it was before.
C3_InvalidBatchLeavesStore ==
    [][(/\ predicting # <<>>
        /\ predicting' = Tail(predicting)
        /\ InvalidBatch(Files[Head(predicting)]))
       => suspiciousTransactions' = suspiciousTransactions]_vars

(***************************************************************************)
(* The graph: C5, C6, C7, C8 (specification Spec).                         *)
(***************************************************************************)
Accounts == {tx.from_account : tx \in Stored} \cup {tx.to_account : tx \in Stored}
Touching(a) == {i \in DOMAIN suspiciousTransactions :
                   \/ suspiciousTransactions[i].from_account = a
                   \/ suspiciousTransactions[i].to_account = a}
NodesOf(a) == {n \in DOMAIN graphNodes : graphNodes[n].id = a}

\* Number addition: NaN if an operand is.
Plus(x, y) == IF IsNaN(x) \/ IsNaN(y) THEN NaN ELSE x + y
RECURSIVE SumAmounts(_)
SumAmounts(I) ==
    IF I = {} THEN 0
    ELSE LET i == CHOOSE i \in I : TRUE
         IN  Plus(graphEdges[i].amount, SumAmounts(I \ {i}))

\* C5: every account of a stored transaction has a graph node, whose
\* total_volume is the sum of the amounts of the edges touching the account.
C5_NodeVolumeIsSum ==
    \A a \in Accounts :
        /\ NodesOf(a) # {}
        /\ \A n \in NodesOf(a) : graphNodes[n].total_volume = SumAmounts(Touching(a))

\* C6: the graph has exactly one node per account of a stored transaction: the
\* nodes' ids are these accounts, and no two nodes share an id.
C6_OneNodePerAccount ==
    /\ {graphNodes[n].id : n \in DOMAIN graphNodes} = Accounts
    /\ \A m, n \in DOMAIN graphNodes : graphNodes[m].id = graphNodes[n].id => m = n

Severity(level) == IF level = HIGH THEN 3 ELSE IF level = MEDIUM THEN 2 ELSE 1

\* C7: each node's risk_level is the most severe level among the stored
\* transactions touching its account.
C7_NodeLevelIsMax ==
    \A n \in DOMAIN graphNodes :
        LET touching == Touching(graphNodes[n].id)
        IN  /\ \A i \in touching :
                   Severity(suspiciousTransactions[i].risk_level)
                       <= Severity(graphNodes[n].risk_level)
            /\ \E i \in touching :
                   suspiciousTransactions[i].risk_level = graphNodes[n].risk_level

\* C8: the edges correspond one to one to the stored transactions: the i-th edge
\* has the i-th transaction's from, to and amount and is suspicious iff its level
\* is HIGH; between any two accounts there are as many edges as transactions.
C8_EdgePerTransaction ==
    /\ Len(graphEdges) = Len(suspiciousTransactions)
    /\ \A i \in DOMAIN suspiciousTransactions :
           /\ graphEdges[i].from = suspiciousTransactions[i].from_account
           /\ graphEdges[i].to = suspiciousTransactions[i].to_account
           /\ graphEdges[i].amount = suspiciousTransactions[i].amount
           /\ graphEdges[i].suspicious <=> suspiciousTransactions[i].risk_level = HIGH
    /\ \A a, b \in Accounts :
           Cardinality({i \in DOMAIN graphEdges :
                           graphEdges[i].from = a /\ graphEdges[i].to = b})
             = Cardinality({i \in DOMAIN suspiciousTransactions :
                               /\ suspiciousTransactions[i].from_account = a
                               /\ suspiciousTransactions[i].to_account = b})

\* Two transactions between the same accounts are stored, one of them HIGH with
\* a score that is not, the other not HIGH.
C8_Witness ==
    \E i, j \in DOMAIN suspiciousTransactions :
        /\ i # j
        /\ suspiciousTransactions[i].from_account = suspiciousTransactions[j].from_account
        /\ suspiciousTransactions[i].to_account = suspiciousTransactions[j].to_account
        /\ suspiciousTransactions[i].risk_level = HIGH
        /\ suspiciousTransactions[i].risk_score <= HighThreshold
        /\ suspiciousTransactions[j].risk_level # HIGH
        /\ graphEdges[i].suspicious /\ ~graphEdges[j].suspicious

(***************************************************************************)
(* The simulator: C4 (specification SpecSim).                              *)
(***************************************************************************)
\* C4: a step of the simulator (one that changes its form, result, isLoading or
\* outstanding call) leaves the stored transactions, the graph derived from them
\* and every other field of the dashboard and the table unchanged.
C4_SimulationNonCommitting ==
    [][simulatorVars' # simulatorVars =>
         /\ suspiciousTransactions' = suspiciousTransactions
         /\ graphNodes' = graphNodes
         /\ graphEdges' = graphEdges
         /\ dashboardVars' = dashboardVars
         /\ tableVars' = tableVars]_vars

\* A simulation has completed while transactions are stored.
C4_Witness ==
    /\ result # Null
    /\ ~isLoading
    /\ suspiciousTransactions # <<>>

(***************************************************************************)
(* The query: C9, C10 (specification SpecQuery).                           *)
(***************************************************************************)
\* Two characters equal up to case.
SameLetter(c, d) ==
    c = d \/ \E k \in DOMAIN UpperLetters : {c, d} = {UpperLetters[k], LowerLetters[k]}
\* t occurs in s, case ignored.
OccursIgnoringCase(t, s) ==
    \E off \in 0..(Len(s) - Len(t)) : \A k \in 1..Len(t) : SameLetter(s[off + k], t[k])
Keeps(tx) ==
    /\ \/ OccursIgnoringCase(searchTerm, tx.id)
       \/ OccursIgnoringCase(searchTerm, tx.from_account)
       \/ OccursIgnoringCase(searchTerm, tx.to_account)
    /\ filterRisk = ALL \/ filterRisk = tx.risk_level

\* C9: the query's output holds exactly the stored transactions whose id,
\* from_account or to_account contains the search text, case ignored, and whose
\* risk_level is the risk filter's unless that is "all"; each once.
C9_FilterKeepsExactly ==
    \A view \in filteredAndSortedTransactions :
        /\ {view[i] : i \in DOMAIN view} = {tx \in Stored : Keeps(tx)}
        /\ Len(view) = Cardinality({tx \in Stored : Keeps(tx)})

\* A search text typed in another case than the account it matches, with a risk
\* filter set: some transactions are kept and some are not.
C9_Witness ==
    /\ searchTerm = <<"A","1">>
    /\ filterRisk # ALL
    /\ \E view \in filteredAndSortedTransactions :
           0 < Len(view) /\ Len(view) < Len(suspiciousTransactions)
    /\ \E tx \in Stored : tx.risk_level = filterRisk /\ ~Keeps(tx)

\* The place of a stored transaction in the store (ids are distinct in a store).
Position(tx) == CHOOSE i \in DOMAIN suspiciousTransactions : suspiciousTransactions[i] = tx

\* first may stand before second in the selected order: by number for a numeric
\* key (no order is asked of a NaN), by the string order for the others; with
\* equal keys, first was stored before second.
MayPrecede(first, second) ==
    LET x == first[sortField]
        y == second[sortField]
    IN  IF sortField \in NumericFields
        THEN IF IsNaN(x) \/ IsNaN(y) THEN TRUE
             ELSE IF x = y THEN Position(first) < Position(second)
             ELSE IF sortDirection = "asc" THEN x < y ELSE x > y
        ELSE IF LocaleCompare(x, y) = 0 THEN Position(first) < Position(second)
             ELSE IF sortDirection = "asc" THEN LocaleCompare(x, y) < 0
             ELSE LocaleCompare(x, y) > 0

\* C10: the query's output is ordered by the selected key in the selected
\* direction, and transactions with equal keys keep their insertion order.
C10_OrderedAndStable ==
    \A view \in filteredAndSortedTransactions :
        \A i, j \in DOMAIN view : i < j => MayPrecede(view[i], view[j])


C12_SortTransitions ==
    /\ sortField = "risk_score" /\ sortDirection = "desc"
    /\ [][<<sortField, sortDirection>>' # <<sortField, sortDirection>> =>
            \/ /\ sortField' = sortField
               /\ sortDirection' = (IF sortDirection = "asc" THEN "desc" ELSE "asc")
            \/ /\ sortField' # sortField
               /\ sortField' \in SortFields
               /\ sortDirection' = "desc"]_vars

\* Another field than the initial one is active, ascending: it was chosen and
\* then clicked again.
C12_Witness == sortField = "amount" /\ sortDirection = "asc"

Reverse(s) == [i \in 1..Len(s) |-> s[Len(s) + 1 - i]]
\* No two transactions the filter keeps have the same value of the sort key
\* (a NaN equals nothing).
NoEqualKeys ==
    \A i, j \in DOMAIN filteredTransactions :
        (i # j /\ ~IsNaN(filteredTransactions[i][sortField]))
            => filteredTransactions[i][sortField] # filteredTransactions[j][sortField]

\* C13: when the direction of a numeric sort key without equal values is
\* flipped (the store and the filter stay as they are), the output is the
\* exact reverse of the output before.
C13_DescReversesAsc ==
    [][(/\ sortField \in NumericFields
        /\ sortField' = sortField
        /\ sortDirection' # sortDirection
        /\ UNCHANGED <<suspiciousTransactions, filterRisk, searchTerm>>
        /\ NoEqualKeys)
       => \A before \in filteredAndSortedTransactions :
              \A after \in sortOutcomes(filteredTransactions, sortField, sortDirection') :
                  after = Reverse(before)]_vars

(***************************************************************************)
(* Ingestion: C14, C16, C17, C18 (specification Spec).                     *)
(***************************************************************************)
\* C14: a stored transaction's status is FLAGGED iff its risk_level is MEDIUM
\* or HIGH, and PENDING when its risk_level is LOW.
C14_StatusFollowsLevel ==
    \A tx \in Stored :
        /\ tx.status = "FLAGGED" <=> tx.risk_level \in {MEDIUM, HIGH}
        /\ tx.risk_level = LOW => tx.status = "PENDING"

\* C16: every stored transaction whose risk_level is HIGH has a non-empty
\* reason_codes list, and no stored transaction's reason_codes holds a tag
\* twice.
C16_ReasonCodes ==
    \A tx \in Stored :
        /\ tx.risk_level = HIGH => tx.reason_codes # <<>>
        /\ \A i, j \in DOMAIN tx.reason_codes :
               tx.reason_codes[i] = tx.reason_codes[j] => i = j

\* A HIGH transaction is stored with the shortest list the slice can give, and
\* some transaction is stored with all three tags.
C16_Witness ==
    /\ \E tx \in Stored : tx.risk_level = HIGH /\ Len(tx.reason_codes) = 1
    /\ \E tx \in Stored : Len(tx.reason_codes) = 3

\* C17: the ids of the store are pairwise distinct, and when an upload's
\* analysis is stored, each of its ids is ordered after every id that the
\* store held from the upload before.
C17_IdsUniqueAndMonotonic ==
    [][(predicting # <<>> /\ predicting' = Tail(predicting))
       => /\ \A i, j \in DOMAIN suspiciousTransactions' :
                 suspiciousTransactions'[i].id = suspiciousTransactions'[j].id => i = j
          /\ \A i \in DOMAIN suspiciousTransactions :
                 \A j \in DOMAIN suspiciousTransactions' :
                     LocaleCompare(suspiciousTransactions[i].id,
                                   suspiciousTransactions'[j].id) < 0]_vars

\* C18: at most one upload's analysis is outstanding at any time.
C18_OneIngestionInFlight == Len(predicting) <= 1

(***************************************************************************)
(* C15, C20 (specification SpecSim) and C19 (specification SpecQuery).     *)
(***************************************************************************)
\* C15: the risk_level of a simulation result is HIGH if its risk_score is
\* above 0.7, MEDIUM if it is above 0.4 and not above 0.7, else LOW; 0.7 itself
\* gives MEDIUM and 0.4 itself gives LOW.
C15_SimulationLevel ==
    result # Null =>
        /\ result.risk_score > 70 => result.risk_level = HIGH
        /\ (result.risk_score > 40 /\ result.risk_score <= 70) => result.risk_level = MEDIUM
        /\ result.risk_score <= 40 => result.risk_level = LOW

\* A result with the score on the upper threshold is displayed.
C15_Witness ==
    result # Null /\ result.risk_score = 70 /\ result.risk_level = MEDIUM

\* The place of a level in the order of the strings "HIGH" < "LOW" < "MEDIUM".
StringRank(level) == IF level = HIGH THEN 1 ELSE IF level = LOW THEN 2 ELSE 3

\* C19: with the sort key risk_level, ascending puts every HIGH before every
\* LOW and every LOW before every MEDIUM; descending is the opposite.
C19_LevelSortsAsString ==
    sortField = "risk_level" =>
        \A view \in filteredAndSortedTransactions :
            \A i, j \in DOMAIN view :
                i < j => IF sortDirection = "asc"
                         THEN StringRank(view[i].risk_level) <= StringRank(view[j].risk_level)
                         ELSE StringRank(view[i].risk_level) >= StringRank(view[j].risk_level)

\* An ascending view by risk_level holds all three levels.
C19_Witness ==
    /\ sortField = "risk_level"
    /\ sortDirection = "asc"
    /\ \E view \in filteredAndSortedTransactions :
           {view[i].risk_level : i \in DOMAIN view} = RiskLevels

\* C20: when a result comes to be displayed, the transaction it was computed
\* for is the one the form shows.
C20_ResultMatchesForm ==
    [][(simulating # <<>> /\ simulating' = Tail(simulating) /\ result' # Null)
       => /\ formData' = formData
          /\ Head(simulating) = [formData EXCEPT !.amount = ParseFloat(formData.amount)]]_vars

(***************************************************************************)
(* The dashboard's counts and its processing flag: C21, C22.               *)
(***************************************************************************)
\* The report's Risk Percentage in tenths of a percent, as toFixed(1) rounds
\* ((suspiciousCount / transactionCount) * 100); "0%" without transactions.
RiskPercentage ==
    LET transactionCount == Len(uploadedData)
        suspiciousCount  == Len(suspiciousTransactions)
    IN  IF transactionCount > 0
        THEN (suspiciousCount * 2000 + transactionCount) \div (2 * transactionCount)
        ELSE 0

\* C21: in every reachable state the number of suspicious transactions held is
\* at most the number of uploaded rows, so the Risk Percentage is at most 100.
C21_SuspiciousAtMostUploaded ==
    /\ Len(suspiciousTransactions) <= Len(uploadedData)
    /\ RiskPercentage <= 1000

\* The predictResolved step as it shows on predicting: the oldest outstanding
\* analysis settles.  No other action shortens predicting.
analysisSettles == predicting # <<>> /\ predicting' = Tail(predicting)

\* Spec with the event the browser is sure to deliver: a timer that was set
\* fires, so an outstanding analysis settles.  The user's actions stay optional.
SpecFair == Spec /\ WF_predicting(analysisSettles)

\* C22: isProcessing is true exactly while some upload's analysis is
\* outstanding, overlapping uploads included, and whenever it is true it
\* returns to false later.
C22_ProcessingWhileOutstanding ==
    /\ [](isProcessing <=> predicting # <<>>)
    /\ (isProcessing ~> ~isProcessing)
=============================================================================
